---- MODULE Spec2Model ----
(***************************************************************************)
(* Model of the static class Scheduler of src/src/core/Scheduler.ts        *)
(* (lines 16-217): the task registry, one-shot and recurring scheduling,   *)
(* dependency polling, retry handling, cancellation and the identifier     *)
(* generator, on top of a model of the host's timer facility (setTimeout,  *)
(* setInterval, clearTimeout, clearInterval) and of the millisecond clock  *)
(* Date.now().                                                             *)
(*                                                                         *)
(* The runtime is single threaded: every public call and every timer       *)
(* callback runs to completion, so each one is one atomic action.  Calls   *)
(* made by the caller may happen between any two timer callbacks.  Timers  *)
(* fire in the order of their due time, ties in the order of creation, and *)
(* the clock does not pass a timer that is due.                            *)
(***************************************************************************)
EXTENDS Integers, Sequences, FiniteSets, TLC

VARIABLES
  now,            \* Date.now(), in milliseconds
  lastTimestamp,  \* Scheduler.lastTimestamp
  sequence,       \* Scheduler.sequence
  scheduledTasks, \* Scheduler.scheduledTasks: id -> ScheduledTaskMetadata
  timers,         \* pending timers of the host: set of timer records
  nextHandle,     \* next timer handle the host hands out
  closures,       \* id -> variables captured by scheduleRecurringTask's executeTask
  raisingHooks,   \* Scheduler.onTaskStart, onTaskComplete, onTaskFail, onTaskRetry:
                  \* the hooks that are assigned a function that raises
  trace,          \* history: id -> hook calls and work invocations made for it
  submitted,      \* history: id -> arguments of the submitting call
  gate,           \* history: id -> what the dependency checks made for it could see
  overridden,     \* history: ids the caller called updateTaskStatus on
  cancelAt,       \* history: id -> snapshot at the first cancel that returned true
  lastCall,       \* history: the cancelScheduledTask call that has just returned, if
                  \* any, with its result and the registry it was called on
  issued,         \* history: identifiers returned by generateUniqueId
  calls,          \* history: number of generateUniqueId calls that returned
  used,           \* history: number of direct generateUniqueId calls of the caller
  moves,          \* history: id -> the status changes <<from, to>> the scheduler made
                  \* while the caller had not overridden the task's status
  lastIds,        \* history: the last two identifiers generateUniqueId returned
  runAt           \* history: id -> the times at which the work was invoked

vars == <<now, lastTimestamp, sequence, scheduledTasks, timers, nextHandle,
          closures, trace, submitted, gate, overridden, cancelAt, lastCall,
          issued, calls, used, raisingHooks, moves, lastIds, runAt>>

----------------------------------------------------------------------------
(* Bounds of the model and constants of the program *)

MaxTasks == 2
MaxPolls == 2
MaxRetriesBound == 1
MaxDeps == 1
MaxOverrides == 1
MaxCancels == 1
MaxIdCalls == 6
MaxIdClock == 2
MaxCycles == 4
StartWindow == 2

PollInterval == 100
SeqMask == 4095

Horizon == MaxPolls * PollInterval
RecurringHorizon == MaxCycles * PollInterval
Delays == {0, PollInterval \div 2}
Intervals == {PollInterval}
Names == {"job"}
Statuses == {"scheduled", "waiting", "executing", "completed", "canceled",
             "failed", "retrying"}
Terminal == {"completed", "canceled", "failed"}
OverrideStatuses == {"completed", "failed"}
UnknownId == <<"?">>
NoHandle == 0
Hooks == {"onTaskStart", "onTaskComplete", "onTaskFail", "onTaskRetry"}

\* the error object a raising hook throws; the error a raising work throws is
\* named by the number of the attempt (1, 2, ...)
HookError == 0

----------------------------------------------------------------------------
(* Helpers *)

Min(S) == CHOOSE x \in S : \A y \in S : x <= y

DigitChar(d) == <<"0", "1", "2", "3", "4", "5", "6", "7", "8", "9">>[d + 1]

RECURSIVE NumStr(_)
NumStr(n) ==
  IF n < 10 THEN <<DigitChar(n)>>
  ELSE NumStr(n \div 10) \o <<DigitChar(n % 10)>>

FormatId(timestamp, seq) == NumStr(timestamp) \o <<"-">> \o NumStr(seq)

\* x & 4095 for x >= 0
And4095(x) == x % (SeqMask + 1)

MapSet(m, k, v) == [x \in DOMAIN m \cup {k} |-> IF x = k THEN v ELSE m[x]]

\* { ...a, ...b }: the properties of a, overwritten and extended by those of b
Spread(a, b) == [k \in DOMAIN a \cup DOMAIN b |-> IF k \in DOMAIN b THEN b[k] ELSE a[k]]

----------------------------------------------------------------------------
(* The identifier generator *)

\* generateUniqueId: `after` is the clock value at which the busy wait of the
\* overflow branch observes Date.now() > timestamp and exits.
GenerateUniqueId(clock, last, seq, after) ==
  LET timestamp == clock
      seq1 == IF last = timestamp THEN And4095(seq + 1) ELSE 0
      waited == last = timestamp /\ seq1 = 0
  IN [id |-> FormatId(timestamp, seq1),
      now |-> IF waited THEN after ELSE clock,
      lastTimestamp |-> timestamp,
      sequence |-> seq1]

----------------------------------------------------------------------------
(* The scheduler's operations, as functions on the mutable state            *)
(*   st = [now, tasks, timers, nextHandle, closures, trace, hooks, thrown,  *)
(*         moves, runAt]                                                    *)
(* st.thrown names the hook whose exception is propagating, "none" if none. *)

Emit(st, id, event) ==
  [st EXCEPT !.trace = MapSet(@, id, (IF id \in DOMAIN @ THEN @[id] ELSE <<>>) \o <<event>>),
             !.runAt = IF event[1] # "task" THEN @
                       ELSE MapSet(@, id, (IF id \in DOMAIN @ THEN @[id] ELSE <<>>)
                                          \o <<st.now>>)]

\* a lifecycle hook is called; it raises if a raising function is assigned
Hook(st, hook, id, event) ==
  LET s1 == Emit(st, id, event)
  IN IF hook \in st.hooks THEN [s1 EXCEPT !.thrown = hook] ELSE s1

\* number of times the work of `id` has been invoked
Runs(tr, id) == Cardinality({i \in 1..Len(tr[id]) : tr[id][i][1] = "task"})

\* setTimeout(callback, delay): the handle returned is st.nextHandle
SetTimeout(st, kind, id, delay) ==
  [st EXCEPT !.timers = @ \cup {[h |-> st.nextHandle, kind |-> kind, id |-> id,
                                 due |-> st.now + delay, period |-> 0]},
             !.nextHandle = @ + 1]

\* setInterval(callback, period)
SetInterval(st, kind, id, period) ==
  [st EXCEPT !.timers = @ \cup {[h |-> st.nextHandle, kind |-> kind, id |-> id,
                                 due |-> st.now + period, period |-> period]},
             !.nextHandle = @ + 1]

\* clearTimeout and clearInterval that leave the timer pending
ClearTimer_Noop(st, handle) == st

\* clearTimeout(handle) and clearInterval(handle): the host keeps one table of
\* timers, either call removes a pending timer of either sort
ClearTimer(st, handle) ==
  [st EXCEPT !.timers = {t \in @ : t.h # handle}]

\* the host drops a setTimeout timer from its table when it runs the callback
Expire(st, t) ==
  [st EXCEPT !.timers = @ \ {t}]

\* taskMetadata.status = status, with the change noted in the history
SetStatus(st, id, status) ==
  LET from == st.tasks[id].status
  IN [st EXCEPT !.tasks[id].status = status,
                !.moves = IF from = status THEN @
                          ELSE MapSet(@, id, (IF id \in DOMAIN @ THEN @[id] ELSE {})
                                             \cup {<<from, status>>})]

UpdateTaskStatus(st, id, status) ==
  IF id \in DOMAIN st.tasks
  THEN SetStatus(st, id, status)
  ELSE st

\* allDependenciesMet taking an id without a record for satisfied
AllDependenciesMet_MissingIsMet(tasks, dependencies) ==
  \A i \in 1..Len(dependencies) :
    \/ dependencies[i] \notin DOMAIN tasks
    \/ tasks[dependencies[i]].status = "completed"

\* allDependenciesMet taking every id with a record for satisfied
AllDependenciesMet_AnyStatus(tasks, dependencies) ==
  \A i \in 1..Len(dependencies) : dependencies[i] \in DOMAIN tasks

AllDependenciesMet(tasks, dependencies) ==
  \A i \in 1..Len(dependencies) :
    /\ dependencies[i] \in DOMAIN tasks
    /\ tasks[dependencies[i]].status = "completed"

\* handleTaskFailure without the retry branch
HandleTaskFailure_NoRetry(st, id, error) ==
  IF id \notin DOMAIN st.tasks THEN st
  ELSE Emit(UpdateTaskStatus(st, id, "failed"), id,
            <<"onTaskFail", st.tasks[id].name, error>>)

\* handleTaskFailure with retryCount <= maxRetries for retryCount < maxRetries
HandleTaskFailure_OffByOne(st, id, error) ==
  IF id \notin DOMAIN st.tasks THEN st
  ELSE
    LET t == st.tasks[id] IN
    IF t.retryCount <= t.maxRetries
    THEN LET s1 == [st EXCEPT !.tasks[id].retryCount = t.retryCount + 1]
             s2 == UpdateTaskStatus(s1, id, "retrying")
             s3 == SetTimeout(s2, "retry", id, t.delay)
         IN Emit(s3, id, <<"onTaskRetry", t.name, t.retryCount + 1, t.maxRetries>>)
    ELSE LET s1 == UpdateTaskStatus(st, id, "failed")
         IN Emit(s1, id, <<"onTaskFail", t.name, error>>)

HandleTaskFailure(st, id, error) ==
  IF id \notin DOMAIN st.tasks THEN st
  ELSE
    LET t == st.tasks[id] IN
    IF t.retryCount < t.maxRetries
    THEN LET s1 == [st EXCEPT !.tasks[id].retryCount = t.retryCount + 1]
             s2 == UpdateTaskStatus(s1, id, "retrying")
             s3 == SetTimeout(s2, "retry", id, t.delay)
         IN Hook(s3, "onTaskRetry", id,
                 <<"onTaskRetry", t.name, t.retryCount + 1, t.maxRetries>>)
    ELSE LET s1 == UpdateTaskStatus(st, id, "failed")
         IN Hook(s1, "onTaskFail", id, <<"onTaskFail", t.name, error>>)

\* execute that calls onTaskStart only for the first attempt
Execute_StartOnce(st, id, ok) ==
  LET name == st.tasks[id].name
      s1 == IF st.trace[id] = <<>> THEN Emit(st, id, <<"onTaskStart", name>>) ELSE st
      s2 == UpdateTaskStatus(s1, id, "executing")
      s3 == Emit(s2, id, <<"task", IF ok THEN "returned" ELSE "raised">>)
  IN IF ok
     THEN Emit(UpdateTaskStatus(s3, id, "completed"), id, <<"onTaskComplete", name>>)
     ELSE HandleTaskFailure(s3, id, Runs(s3.trace, id))

\* execute that calls onTaskStart after the work
Execute_StartLate(st, id, ok) ==
  LET name == st.tasks[id].name
      s1 == UpdateTaskStatus(st, id, "executing")
      s2 == Emit(s1, id, <<"task", IF ok THEN "returned" ELSE "raised">>)
      s3 == Emit(s2, id, <<"onTaskStart", name>>)
  IN IF ok
     THEN Emit(UpdateTaskStatus(s3, id, "completed"), id, <<"onTaskComplete", name>>)
     ELSE HandleTaskFailure(s3, id, Runs(s3.trace, id))

\* the closure `execute` of executeOrDelayTask; ok: the work returns normally.
\* The error a raising attempt throws is named by the attempt's number.
\* onTaskStart is called outside the try block, onTaskComplete inside it.
Execute(st, id, ok) ==
  LET name == st.tasks[id].name
      s1 == Hook(st, "onTaskStart", id, <<"onTaskStart", name>>)
      s2 == UpdateTaskStatus(s1, id, "executing")
      s3 == Emit(s2, id, <<"task", IF ok THEN "returned" ELSE "raised">>)
      s4 == Hook(UpdateTaskStatus(s3, id, "completed"), "onTaskComplete", id,
                 <<"onTaskComplete", name>>)
  IN IF s1.thrown # "none" THEN s1
     ELSE IF ~ok THEN HandleTaskFailure(s3, id, Runs(s3.trace, id))
     ELSE IF s4.thrown # "none"
          THEN HandleTaskFailure([s4 EXCEPT !.thrown = "none"], id, HookError)
          ELSE s4

\* executeOrDelayTask that runs the work at once whatever the delay
ExecuteOrDelayTask_Immediate(st, id, ok) ==
  IF id \notin DOMAIN st.tasks THEN st
  ELSE Execute(st, id, ok)

ExecuteOrDelayTask(st, id, ok) ==
  IF id \notin DOMAIN st.tasks THEN st
  ELSE IF st.tasks[id].delay = 0
       THEN Execute(st, id, ok)
       ELSE LET s1 == SetTimeout(st, "execute", id, st.tasks[id].delay)
            IN [s1 EXCEPT !.tasks[id].scheduledId = st.nextHandle]

\* the closure `executeTask` of scheduleRecurringTask; its captured variables
\* (name, interval, maxRetries, retryCount) live in st.closures[id]
\* the catch block of executeTask arming a timer also after the last retry
ExecuteTaskCatch_Rearm(st, id, error) ==
  LET c == st.closures[id] IN
  IF c.retryCount < c.maxRetries
  THEN LET s1 == [st EXCEPT !.closures[id].retryCount = c.retryCount + 1]
           s2 == Emit(s1, id, <<"onTaskRetry", c.name, c.retryCount + 1, c.maxRetries>>)
       IN SetTimeout(s2, "executeTask", id, c.interval)
  ELSE LET s1 == Emit(st, id, <<"onTaskFail", c.name, error>>)
       IN SetTimeout([s1 EXCEPT !.closures[id].retryCount = 0],
                     "executeTask", id, c.interval)

\* its catch block
ExecuteTaskCatch(st, id, error) ==
  LET c == st.closures[id] IN
  IF c.retryCount < c.maxRetries
  THEN LET s1 == [st EXCEPT !.closures[id].retryCount = c.retryCount + 1]
           s2 == Hook(s1, "onTaskRetry", id,
                      <<"onTaskRetry", c.name, c.retryCount + 1, c.maxRetries>>)
       IN IF s2.thrown # "none" THEN s2
          ELSE SetTimeout(s2, "executeTask", id, c.interval)
  ELSE LET s1 == Hook(st, "onTaskFail", id, <<"onTaskFail", c.name, error>>)
       IN IF s1.thrown # "none" THEN s1
          ELSE [s1 EXCEPT !.closures[id].retryCount = 0]

\* executeTask that keeps retryCount after a successful run
ExecuteTask_NoReset(st, id, ok) ==
  LET c == st.closures[id]
      s1 == Emit(st, id, <<"onTaskStart", c.name>>)
      s2 == Emit(s1, id, <<"task", IF ok THEN "returned" ELSE "raised">>)
      s3 == Emit(s2, id, <<"onTaskComplete", c.name>>)
  IN IF ok THEN SetTimeout(s3, "executeTask", id, c.interval)
     ELSE ExecuteTaskCatch(s2, id, Runs(s2.trace, id))

\* executeTask that arms no timer after a successful run
ExecuteTask_NoRearm(st, id, ok) ==
  LET c == st.closures[id]
      s1 == Emit(st, id, <<"onTaskStart", c.name>>)
      s2 == Emit(s1, id, <<"task", IF ok THEN "returned" ELSE "raised">>)
      s3 == [s2 EXCEPT !.closures[id].retryCount = 0]
  IN IF ok THEN Emit(s3, id, <<"onTaskComplete", c.name>>)
     ELSE ExecuteTaskCatch(s2, id, Runs(s2.trace, id))

ExecuteTask(st, id, ok) ==
  LET c == st.closures[id]
      s1 == Hook(st, "onTaskStart", id, <<"onTaskStart", c.name>>)
      s2 == Emit(s1, id, <<"task", IF ok THEN "returned" ELSE "raised">>)
      s3 == [s2 EXCEPT !.closures[id].retryCount = 0]
      s4 == Hook(s3, "onTaskComplete", id, <<"onTaskComplete", c.name>>)
  IN IF s1.thrown # "none" THEN s1
     ELSE IF ~ok THEN ExecuteTaskCatch(s2, id, Runs(s2.trace, id))
     ELSE IF s4.thrown # "none"
          THEN ExecuteTaskCatch([s4 EXCEPT !.thrown = "none"], id, HookError)
          ELSE SetTimeout(s4, "executeTask", id, c.interval)

----------------------------------------------------------------------------
(* The state after construction *)

EmptyMap == [x \in {} |-> 0]

\* lastCall when the step just taken was no call of cancelScheduledTask
NoCall == [op |-> "none", id |-> UnknownId, ret |-> FALSE, before |-> EmptyMap]

Init ==
  /\ now = 0
  /\ lastTimestamp = -1
  /\ sequence = 0
  /\ scheduledTasks = EmptyMap
  /\ timers = {}
  /\ nextHandle = 1
  /\ closures = EmptyMap
  /\ trace = EmptyMap
  /\ submitted = EmptyMap
  /\ gate = EmptyMap
  /\ overridden = {}
  /\ cancelAt = EmptyMap
  /\ lastCall = NoCall
  /\ issued = {}
  /\ calls = 0
  /\ used = 0
  /\ raisingHooks = {}
  /\ moves = EmptyMap
  /\ runAt = EmptyMap
  /\ lastIds = <<>>

St == [now |-> now, tasks |-> scheduledTasks, timers |-> timers,
       nextHandle |-> nextHandle, closures |-> closures, trace |-> trace,
       hooks |-> raisingHooks, thrown |-> "none", moves |-> moves,
       runAt |-> runAt]

Commit(st) ==
  /\ now' = st.now
  /\ scheduledTasks' = st.tasks
  /\ timers' = st.timers
  /\ nextHandle' = st.nextHandle
  /\ closures' = st.closures
  /\ trace' = st.trace
  /\ moves' = [id \in DOMAIN st.moves |->
                 IF id \in overridden THEN moves[id] ELSE st.moves[id]]
  /\ runAt' = st.runAt

\* the last two of the identifiers returned, after `id` has been returned
Returned(id) == IF lastIds = <<>> THEN <<id>> ELSE <<lastIds[Len(lastIds)], id>>

KnownIds == DOMAIN scheduledTasks

\* History only: at this instant every id of the list has a record in the
\* registry and that record's status is `completed`.  gate[id] is "none" for a
\* task without dependencies, "met" when this held at the check made at
\* submission, "released" once it held at a check made by a poll tick, and
\* "unmet" as long as it held at none of the checks made so far.
DepsCompleted(tasks, dependencies) ==
  \A i \in 1..Len(dependencies) :
    \E d \in DOMAIN tasks : d = dependencies[i] /\ tasks[d].status = "completed"

\* dependency lists a caller can pass: ids it has been given, or an id of no task
DepLists ==
  {<<>>} \cup UNION {[1..n -> KnownIds \cup {UnknownId}] : n \in 1..MaxDeps}

----------------------------------------------------------------------------
(* Public operations called by the caller *)

\* The work is given by `ok`: whether its invocations return normally.
ScheduleTask(delay, name, metadata, dependencies, maxRetries, ok) ==
  /\ Cardinality(DOMAIN submitted) < MaxTasks
  /\ LET g == GenerateUniqueId(now, lastTimestamp, sequence, now + 1)
         id == g.id
         taskMetadata == Spread(Spread([id |-> id, name |-> name, scheduledId |-> NoHandle,
                                        status |-> "scheduled", retryCount |-> 0,
                                        maxRetries |-> maxRetries, delay |-> delay],
                                       metadata),
                                [dependencies |-> dependencies])
         s0 == [St EXCEPT !.now = g.now,
                          !.tasks = MapSet(@, id, taskMetadata),
                          !.trace = MapSet(@, id, IF id \in DOMAIN @ THEN @[id] ELSE <<>>),
                          !.moves = MapSet(@, id, IF id \in DOMAIN @ THEN @[id] ELSE {}),
                          !.runAt = MapSet(@, id, IF id \in DOMAIN @ THEN @[id] ELSE <<>>)]
         ready == Len(dependencies) = 0 \/ AllDependenciesMet(s0.tasks, dependencies)
         s1 == IF ready
               THEN ExecuteOrDelayTask(s0, id, ok)
               ELSE SetInterval([s0 EXCEPT !.tasks[id].status = "waiting"],
                                "poll", id, PollInterval)
     IN /\ Commit(s1)
        /\ lastTimestamp' = g.lastTimestamp
        /\ sequence' = g.sequence
        /\ issued' = issued \cup {id}
        /\ calls' = calls + 1
        /\ submitted' = MapSet(submitted, id,
                          [kind |-> "oneshot", delay |-> delay, name |-> name,
                           dependencies |-> dependencies, maxRetries |-> maxRetries,
                           at |-> now, threw |-> s1.thrown # "none"])
        /\ gate' = MapSet(gate, id, IF Len(dependencies) = 0 THEN "none"
                                     ELSE IF DepsCompleted(s0.tasks, dependencies)
                                          THEN "met" ELSE "unmet")
        /\ lastCall' = NoCall
        /\ lastIds' = Returned(id)
        /\ UNCHANGED <<overridden, cancelAt, used, raisingHooks>>

ScheduleRecurringTask(interval, name, metadata, maxRetries) ==
  /\ Cardinality(DOMAIN submitted) < MaxTasks
  /\ LET g == GenerateUniqueId(now, lastTimestamp, sequence, now + 1)
         id == g.id
         s0 == [St EXCEPT !.now = g.now,
                          !.closures = MapSet(@, id, [retryCount |-> 0, name |-> name,
                                                      interval |-> interval,
                                                      maxRetries |-> maxRetries]),
                          !.trace = MapSet(@, id, IF id \in DOMAIN @ THEN @[id] ELSE <<>>),
                          !.moves = MapSet(@, id, IF id \in DOMAIN @ THEN @[id] ELSE {}),
                          !.runAt = MapSet(@, id, IF id \in DOMAIN @ THEN @[id] ELSE <<>>)]
         scheduledId == s0.nextHandle
         s1 == SetTimeout(s0, "executeTask", id, interval)
         taskMetadata == Spread([id |-> id, name |-> name, scheduledId |-> scheduledId,
                                 status |-> "scheduled", retryCount |-> 0,
                                 maxRetries |-> maxRetries, delay |-> interval],
                                metadata)
         s2 == [s1 EXCEPT !.tasks = MapSet(@, id, taskMetadata)]
     IN /\ Commit(s2)
        /\ lastTimestamp' = g.lastTimestamp
        /\ sequence' = g.sequence
        /\ issued' = issued \cup {id}
        /\ calls' = calls + 1
        /\ submitted' = MapSet(submitted, id,
                          [kind |-> "recurring", delay |-> interval, name |-> name,
                           dependencies |-> <<>>, maxRetries |-> maxRetries,
                           at |-> now, threw |-> FALSE])
        /\ gate' = MapSet(gate, id, "none")
        /\ lastCall' = NoCall
        /\ lastIds' = Returned(id)
        /\ UNCHANGED <<overridden, cancelAt, used, raisingHooks>>

CancelScheduledTask(id) ==
  /\ id \in DOMAIN cancelAt \/ Cardinality(DOMAIN cancelAt) < MaxCancels
  /\ LET hit == id \in DOMAIN scheduledTasks /\ scheduledTasks[id].scheduledId # NoHandle
         s1 == IF hit
               THEN SetStatus(ClearTimer(St, scheduledTasks[id].scheduledId),
                              id, "canceled")
               ELSE St
     IN /\ Commit(s1)
        /\ cancelAt' = IF hit /\ id \notin DOMAIN cancelAt
                       THEN MapSet(cancelAt, id,
                              [runs |-> Runs(trace, id),
                               status |-> scheduledTasks[id].status,
                               pending |-> {t.kind : t \in {u \in timers : u.id = id}},
                               due |-> {t.due : t \in {u \in timers :
                                          u.h = scheduledTasks[id].scheduledId}}])
                       ELSE cancelAt
        /\ lastCall' = [op |-> "cancelScheduledTask", id |-> id, ret |-> hit,
                         before |-> scheduledTasks]
        /\ UNCHANGED <<lastTimestamp, sequence, submitted, gate, overridden, issued, calls,
                       used, raisingHooks, lastIds>>

UpdateTaskStatusCall(id, status) ==
  /\ id \in overridden \/ Cardinality(overridden) < MaxOverrides
  /\ Commit([UpdateTaskStatus(St, id, status) EXCEPT !.moves = moves])
  /\ overridden' = overridden \cup ({id} \cap KnownIds)
  /\ lastCall' = NoCall
  /\ UNCHANGED <<lastTimestamp, sequence, submitted, gate, cancelAt, issued, calls, used,
                 raisingHooks, lastIds>>

----------------------------------------------------------------------------
(* The host: the clock and the timer callbacks *)

DueTimers == {t \in timers : t.due <= now}

\* the timer the host runs next: earliest due time, then earliest created
NextTimer ==
  CHOOSE t \in DueTimers :
    \A u \in DueTimers : t.due < u.due \/ (t.due = u.due /\ t.h <= u.h)

Ghosts == <<lastTimestamp, sequence, submitted, overridden, cancelAt, issued, calls, used,
            raisingHooks, lastIds>>

\* setTimeout(execute, delay) of executeOrDelayTask fires
FireExecute(ok) ==
  /\ DueTimers # {}
  /\ NextTimer.kind = "execute"
  /\ Commit(Execute(Expire(St, NextTimer), NextTimer.id, ok))
  /\ lastCall' = NoCall
  /\ UNCHANGED <<Ghosts, gate>>

\* setTimeout(() => this.executeOrDelayTask(id), delay) of handleTaskFailure fires
FireRetry(ok) ==
  /\ DueTimers # {}
  /\ NextTimer.kind = "retry"
  /\ Commit(ExecuteOrDelayTask(Expire(St, NextTimer), NextTimer.id, ok))
  /\ lastCall' = NoCall
  /\ UNCHANGED <<Ghosts, gate>>

\* one tick of the dependencyCheckInterval of scheduleTask
FirePoll(ok) ==
  /\ DueTimers # {}
  /\ NextTimer.kind = "poll"
  /\ LET t == NextTimer
         met == AllDependenciesMet(scheduledTasks, scheduledTasks[t.id].dependencies)
         rearmed == [St EXCEPT !.timers = (@ \ {t}) \cup {[t EXCEPT !.due = @ + t.period]}]
     IN /\ IF met
           THEN Commit(ExecuteOrDelayTask(ClearTimer(rearmed, t.h), t.id, ok))
           ELSE Commit(rearmed)
        /\ gate' = IF DepsCompleted(scheduledTasks, scheduledTasks[t.id].dependencies)
                   THEN [gate EXCEPT ![t.id] = "released"] ELSE gate
        /\ lastCall' = NoCall
  /\ UNCHANGED Ghosts

\* setTimeout(executeTask, interval) of scheduleRecurringTask fires
FireExecuteTask(ok) ==
  /\ DueTimers # {}
  /\ NextTimer.kind = "executeTask"
  /\ Commit(ExecuteTask(Expire(St, NextTimer), NextTimer.id, ok))
  /\ lastCall' = NoCall
  /\ UNCHANGED <<Ghosts, gate>>

\* The clock moves to the next due time.  With no timer pending nothing in the
\* scheduler depends on the time that passes, and the clock stays.
AdvanceTime ==
  /\ DueTimers = {}
  /\ timers # {}
  /\ now < Horizon
  /\ now' = Min({t.due : t \in timers})
  /\ lastCall' = NoCall
  /\ UNCHANGED <<lastTimestamp, sequence, scheduledTasks, timers, nextHandle, closures,
                 trace, submitted, gate, overridden, cancelAt, issued, calls, used,
                 raisingHooks, moves, lastIds, runAt>>

Next ==
  \/ \E delay \in Delays, name \in Names, dependencies \in DepLists,
        maxRetries \in 0..MaxRetriesBound, ok \in BOOLEAN :
       ScheduleTask(delay, name, EmptyMap, dependencies, maxRetries, ok)
  \/ \E interval \in Intervals, name \in Names, maxRetries \in 0..MaxRetriesBound :
       ScheduleRecurringTask(interval, name, EmptyMap, maxRetries)
  \/ \E id \in KnownIds \cup {UnknownId} : CancelScheduledTask(id)
  \/ \E id \in KnownIds \cup {UnknownId}, status \in OverrideStatuses : UpdateTaskStatusCall(id, status)
  \/ \E ok \in BOOLEAN : FireExecute(ok)
  \/ \E ok \in BOOLEAN : FireRetry(ok)
  \/ \E ok \in BOOLEAN : FirePoll(ok)
  \/ \E ok \in BOOLEAN : FireExecuteTask(ok)
  \/ AdvanceTime

Spec == Init /\ [][Next]_vars

----------------------------------------------------------------------------
(* The scheduler with hooks that may raise: the hooks are public static     *)
(* fields, and the caller may assign to each a function that raises, or one *)
(* that returns.  Tasks are submitted and timers fire as above.  An error   *)
(* that leaves a timer callback ends the callback.                          *)

\* Scheduler.<hook> = () => { throw ... }   or   Scheduler.<hook> = () => {}
AssignHook(hook, raises) ==
  /\ raisingHooks' = (IF raises THEN raisingHooks \cup {hook} ELSE raisingHooks \ {hook})
  /\ raisingHooks' # raisingHooks
  /\ lastCall' = NoCall
  /\ UNCHANGED <<now, lastTimestamp, sequence, scheduledTasks, timers, nextHandle, closures,
                 trace, submitted, gate, overridden, cancelAt, issued, calls, used,
                 moves, lastIds, runAt>>

NextHooks ==
  \/ \E hook \in Hooks, raises \in BOOLEAN : AssignHook(hook, raises)
  \/ \E delay \in Delays, name \in Names, dependencies \in DepLists,
        maxRetries \in 0..MaxRetriesBound, ok \in BOOLEAN :
       ScheduleTask(delay, name, EmptyMap, dependencies, maxRetries, ok)
  \/ \E interval \in Intervals, name \in Names, maxRetries \in 0..MaxRetriesBound :
       ScheduleRecurringTask(interval, name, EmptyMap, maxRetries)
  \/ \E ok \in BOOLEAN : FireExecute(ok)
  \/ \E ok \in BOOLEAN : FireRetry(ok)
  \/ \E ok \in BOOLEAN : FirePoll(ok)
  \/ \E ok \in BOOLEAN : FireExecuteTask(ok)
  \/ AdvanceTime

SpecHooks == Init /\ [][NextHooks]_vars

----------------------------------------------------------------------------
(* Recurring tasks on their own, followed over MaxCycles intervals.         *)

AdvanceTimeRecurring ==
  /\ DueTimers = {}
  /\ timers # {}
  /\ now < RecurringHorizon
  /\ now' = Min({t.due : t \in timers})
  /\ lastCall' = NoCall
  /\ UNCHANGED <<lastTimestamp, sequence, scheduledTasks, timers, nextHandle, closures,
                 trace, submitted, gate, overridden, cancelAt, issued, calls, used,
                 raisingHooks, moves, lastIds, runAt>>

NextRecurring ==
  \/ \E interval \in Intervals, name \in Names, maxRetries \in 0..MaxRetriesBound :
       ScheduleRecurringTask(interval, name, EmptyMap, maxRetries)
  \/ \E id \in KnownIds \cup {UnknownId} : CancelScheduledTask(id)
  \/ \E ok \in BOOLEAN : FireExecuteTask(ok)
  \/ AdvanceTimeRecurring

SpecRecurring == Init /\ [][NextRecurring]_vars

----------------------------------------------------------------------------
(* Submissions with a metadata object: empty, with a key of the caller's    *)
(* own, or with keys that are also fields of the record.  The `task` field  *)
(* is not part of the model's record.                                       *)

Metadatas ==
  {EmptyMap,
   [owner |-> "me"],
   [id |-> UnknownId, status |-> "completed"],
   [retryCount |-> 1, maxRetries |-> 0, delay |-> 0]}

NextMetadata ==
  \/ \E delay \in Delays, name \in Names, metadata \in Metadatas, dependencies \in DepLists,
        maxRetries \in 0..MaxRetriesBound, ok \in BOOLEAN :
       ScheduleTask(delay, name, metadata, dependencies, maxRetries, ok)
  \/ \E interval \in Intervals, name \in Names, metadata \in Metadatas,
        maxRetries \in 0..MaxRetriesBound :
       ScheduleRecurringTask(interval, name, metadata, maxRetries)
  \/ \E ok \in BOOLEAN : FireExecute(ok)
  \/ \E ok \in BOOLEAN : FireRetry(ok)
  \/ \E ok \in BOOLEAN : FirePoll(ok)
  \/ \E ok \in BOOLEAN : FireExecuteTask(ok)
  \/ AdvanceTime

SpecMetadata == Init /\ [][NextMetadata]_vars

----------------------------------------------------------------------------
(* The identifier generator on its own: generateUniqueId is public.  The    *)
(* generator starts either fresh or in the state it is in after s + 1 calls *)
(* made within millisecond 0, for s close to the largest sequence number.   *)

StartSeqs == {-1} \cup {SeqMask - k : k \in 0..StartWindow}

InitId ==
  \E s \in StartSeqs :
    /\ now = 0
    /\ lastTimestamp = (IF s < 0 THEN -1 ELSE 0)
    /\ sequence = (IF s < 0 THEN 0 ELSE s)
    /\ issued = {FormatId(0, k) : k \in 0..s}
    /\ calls = s + 1
    /\ used = 0
    /\ scheduledTasks = EmptyMap
    /\ timers = {}
    /\ nextHandle = 1
    /\ closures = EmptyMap
    /\ trace = EmptyMap
    /\ submitted = EmptyMap
    /\ gate = EmptyMap
    /\ overridden = {}
    /\ cancelAt = EmptyMap
    /\ lastCall = NoCall
    /\ raisingHooks = {}
    /\ moves = EmptyMap
    /\ runAt = EmptyMap
    /\ lastIds = (IF s < 0 THEN <<>>
                  ELSE IF s = 0 THEN <<FormatId(0, 0)>>
                  ELSE <<FormatId(0, s - 1), FormatId(0, s)>>)

GenerateUniqueIdCall(after) ==
  /\ used < MaxIdCalls
  /\ LET g == GenerateUniqueId(now, lastTimestamp, sequence, after)
     IN /\ now' = g.now
        /\ lastTimestamp' = g.lastTimestamp
        /\ sequence' = g.sequence
        /\ issued' = issued \cup {g.id}
        /\ calls' = calls + 1
        /\ used' = used + 1
        /\ lastIds' = Returned(g.id)
  /\ UNCHANGED <<scheduledTasks, timers, nextHandle, closures, trace, submitted, gate,
                 overridden, cancelAt, lastCall, raisingHooks, moves, runAt>>

AdvanceClock ==
  /\ now < MaxIdClock
  /\ now' = now + 1
  /\ UNCHANGED <<lastTimestamp, sequence, scheduledTasks, timers, nextHandle, closures,
                 trace, submitted, gate, overridden, cancelAt, lastCall, issued, calls,
                 used, raisingHooks, moves, lastIds, runAt>>

NextId ==
  \/ \E after \in {now + 1, now + 2} : GenerateUniqueIdCall(after)
  \/ AdvanceClock

SpecId == InitId /\ [][NextId]_vars

----------------------------------------------------------------------------
(* Vocabulary of the properties *)

OneShot(id) == submitted[id].kind = "oneshot"
Recurring(id) == submitted[id].kind = "recurring"
Status(id) == scheduledTasks[id].status
PendingFor(id) == {t \in timers : t.id = id}

\* the outcomes of the work's invocations so far, in order
Outcomes(tr, id) ==
  LET idx == {i \in 1..Len(tr[id]) : tr[id][i][1] = "task"}
  IN {tr[id][i][2] : i \in idx}

AllRaised(id) == Outcomes(trace, id) \subseteq {"raised"}

----------------------------------------------------------------------------
(* C1..C10 *)

\* C1: a call scheduleTask(work, 0, name, {}, [], N) has, when it returns,
\* invoked the work exactly once and registered the task under the returned id
\* with status completed if the work returned, failed if it raised and N = 0,
\* retrying if it raised and N > 0.
C1_ImmediateSubmission ==
  [][\A id \in DOMAIN submitted' \ DOMAIN submitted :
       LET a == submitted'[id] IN
       (a.kind = "oneshot" /\ a.delay = 0 /\ Len(a.dependencies) = 0) =>
         /\ id \in DOMAIN scheduledTasks'
         /\ scheduledTasks'[id].id = id
         /\ Runs(trace', id) = 1
         /\ scheduledTasks'[id].status =
              (IF Outcomes(trace', id) = {"returned"} THEN "completed"
               ELSE IF a.maxRetries = 0 THEN "failed" ELSE "retrying")]_vars

C1_Witness ==
  \E id \in DOMAIN submitted :
    /\ OneShot(id) /\ submitted[id].delay = 0 /\ Len(submitted[id].dependencies) = 0
    /\ submitted[id].maxRetries > 0
    /\ Runs(trace, id) = 1 /\ AllRaised(id)
    /\ Status(id) = "retrying"

\* C2: a one-shot task with maxRetries = N whose work has raised on every
\* attempt and that was not canceled: the work has been invoked at most N + 1
\* times; as long as it has been invoked fewer times a timer of the task is
\* pending, so a further step towards the next attempt will be taken; once it
\* has been invoked N + 1 times no timer of the task is left and the status is
\* failed (until the caller overrides it with updateTaskStatus).
C2_AlwaysFailing ==
  \A id \in DOMAIN submitted :
    (OneShot(id) /\ AllRaised(id) /\ id \notin DOMAIN cancelAt) =>
      LET n == Runs(trace, id)
          N == submitted[id].maxRetries
      IN /\ n <= N + 1
         /\ n < N + 1 => PendingFor(id) # {}
         /\ n = N + 1 => /\ PendingFor(id) = {}
                         /\ id \notin overridden => Status(id) = "failed"

C2_Witness ==
  \E id \in DOMAIN submitted :
    /\ OneShot(id) /\ submitted[id].delay > 0 /\ submitted[id].maxRetries > 0
    /\ id \notin DOMAIN cancelAt /\ AllRaised(id)
    /\ Runs(trace, id) = submitted[id].maxRetries + 1
    /\ Status(id) = "failed"

\* C3: a task submitted with dependencies of which one was not completed, and
\* for which no dependency check since has found every dependency completed in
\* the registry, has not had its work invoked and has status waiting (unless
\* the caller has overridden its status with updateTaskStatus).
C3_DependencyGating ==
  \A id \in DOMAIN submitted :
    gate[id] = "unmet" =>
      /\ Runs(trace, id) = 0
      /\ id \notin overridden => Status(id) = "waiting"

C3_Witness ==
  \E id \in DOMAIN submitted :
    /\ gate[id] = "unmet" /\ Status(id) = "waiting"
    /\ submitted[id].dependencies[1] \in KnownIds
    /\ \E t \in PendingFor(id) : t.kind = "poll" /\ t.due >= submitted[id].at + 2 * PollInterval

\* C4: once a poll tick of a waiting task has found every dependency
\* completed, the task is no longer in status waiting.
C4_ReleasedLeavesWaiting ==
  \A id \in DOMAIN submitted :
    gate[id] = "released" => Status(id) # "waiting"

\* C5: cancelScheduledTask on a one-shot task with delay > 0 whose delay timer
\* is armed and has not fired returns true and sets the status to canceled;
\* after such a cancel the work is never invoked and the status stays canceled
\* (until the caller overrides it with updateTaskStatus).
C5_CancelBeforeDelay ==
  /\ \A id \in DOMAIN submitted :
       (/\ lastCall.op = "cancelScheduledTask" /\ lastCall.id = id
        /\ OneShot(id) /\ submitted[id].delay > 0
        /\ gate[id] # "unmet" /\ Runs(trace, id) = 0) =>
         lastCall.ret /\ Status(id) = "canceled"
  /\ \A id \in DOMAIN cancelAt :
       (OneShot(id) /\ submitted[id].delay > 0 /\ cancelAt[id].runs = 0) =>
         /\ Runs(trace, id) = 0
         /\ PendingFor(id) = {}
         /\ id \notin overridden => Status(id) = "canceled"

C5_Witness ==
  \E id \in DOMAIN cancelAt :
    /\ OneShot(id) /\ submitted[id].delay > 0 /\ cancelAt[id].runs = 0
    /\ \E d \in cancelAt[id].due : now > d
    /\ Runs(trace, id) = 0 /\ Status(id) = "canceled"

\* C6: once cancelScheduledTask has returned true for a recurring task, its
\* work is not invoked again and onTaskStart is not fired again for it.
C6_RecurringCancelStops ==
  \A id \in DOMAIN cancelAt :
    Recurring(id) =>
      /\ Runs(trace, id) = cancelAt[id].runs
      /\ Cardinality({i \in 1..Len(trace[id]) : trace[id][i][1] = "onTaskStart"})
           = cancelAt[id].runs

\* C7: cancelScheduledTask(id) returns false and leaves the registry unchanged
\* when id is unknown, the task is in a terminal status, or the task has no
\* timer handle.
C7_CancelTerminalIsNoop ==
  (/\ lastCall.op = "cancelScheduledTask"
   /\ \/ lastCall.id \notin DOMAIN lastCall.before
      \/ lastCall.before[lastCall.id].status \in Terminal
      \/ lastCall.before[lastCall.id].scheduledId = NoHandle) =>
    /\ lastCall.ret = FALSE
    /\ scheduledTasks = lastCall.before

\* C8: after cancelScheduledTask on a one-shot task with delay > 0 in status
\* retrying, the work is not invoked again and the status stays canceled (until
\* the caller overrides it with updateTaskStatus).
C8_CancelWhileRetrying ==
  \A id \in DOMAIN cancelAt :
    (OneShot(id) /\ submitted[id].delay > 0 /\ cancelAt[id].status = "retrying") =>
      /\ Runs(trace, id) = cancelAt[id].runs
      /\ id \notin overridden => Status(id) = "canceled"

\* C9: cancelScheduledTask on a task in status waiting moves it to canceled.
C9_CancelWaiting ==
  (/\ lastCall.op = "cancelScheduledTask"
   /\ lastCall.id \in DOMAIN lastCall.before
   /\ lastCall.before[lastCall.id].status = "waiting") =>
    Status(lastCall.id) = "canceled"

\* C10: the identifiers returned by generateUniqueId are pairwise distinct:
\* as many different identifiers have been returned as calls have returned.
C10_IdsDistinct == Cardinality(issued) = calls

\* the timestamp and the sequence number an identifier carries
DigitVal(c) == CHOOSE d \in 0..9 : DigitChar(d) = c

RECURSIVE NumVal(_)
NumVal(str) ==
  IF Len(str) = 0 THEN 0
  ELSE NumVal(SubSeq(str, 1, Len(str) - 1)) * 10 + DigitVal(str[Len(str)])

Dash(id) == CHOOSE i \in 1..Len(id) : id[i] = "-"
IdTimestamp(id) == NumVal(SubSeq(id, 1, Dash(id) - 1))
IdSequence(id) == NumVal(SubSeq(id, Dash(id) + 1, Len(id)))

\* C11: of two consecutive generateUniqueId calls (the clock never goes back)
\* the later identifier is strictly greater in (timestamp, sequence) order:
\* either the same timestamp with a strictly greater sequence number, or a
\* later timestamp with sequence number 0 (also after the sequence number has
\* run past 4095 within one millisecond).
C11_IdsIncrease ==
  Len(lastIds) = 2 =>
    LET a == lastIds[1]
        b == lastIds[2]
    IN \/ IdTimestamp(b) = IdTimestamp(a) /\ IdSequence(b) > IdSequence(a)
       \/ IdTimestamp(b) > IdTimestamp(a) /\ IdSequence(b) = 0

\* the status changes the state machine allows
Edges ==
  {<<"scheduled", "executing">>, <<"waiting", "scheduled">>,
   <<"executing", "completed">>, <<"executing", "failed">>,
   <<"executing", "retrying">>, <<"retrying", "executing">>}
  \cup {<<s, "canceled">> : s \in Statuses \ Terminal}

\* C12: every status change the scheduler itself makes (changes made through
\* the caller's updateTaskStatus set aside) follows one of the edges
\* scheduled->executing, waiting->scheduled, executing->completed,
\* executing->failed, executing->retrying, retrying->executing and
\* non-terminal->canceled; so a completed, canceled or failed task never
\* changes status again.
C12_StatusEdges == \A id \in DOMAIN moves : moves[id] \subseteq Edges

\* what is recorded for `id` in the step
NewEvents(id) ==
  LET old == IF id \in DOMAIN trace THEN Len(trace[id]) ELSE 0
  IN SubSeq(trace'[id], old + 1, Len(trace'[id]))

RaisedNow(id) ==
  \E i \in 1..Len(NewEvents(id)) : NewEvents(id)[i] = <<"task", "raised">>

\* C13: every task of the registry has retryCount <= maxRetries; retryCount
\* starts at 0 and a step changes it only by adding one, and only when an
\* attempt of the task failed while retryCount < maxRetries.
C13_RetryCount ==
  [][\A id \in DOMAIN scheduledTasks' :
       LET t == scheduledTasks'[id]
           before == IF id \in DOMAIN scheduledTasks
                     THEN scheduledTasks[id].retryCount ELSE 0
       IN /\ t.retryCount <= t.maxRetries
          /\ t.retryCount \in {before, before + 1}
          /\ t.retryCount = before + 1 => RaisedNow(id) /\ before < t.maxRetries]_vars

C13_Witness ==
  \E id \in DOMAIN scheduledTasks :
    /\ scheduledTasks[id].maxRetries > 0
    /\ scheduledTasks[id].retryCount = scheduledTasks[id].maxRetries
    /\ Runs(trace, id) = scheduledTasks[id].maxRetries + 1

\* positions of the events of one kind, and their number before position i
Events(tr, kind) == {i \in 1..Len(tr) : tr[i][1] = kind}
Before(tr, kind, i) == Cardinality({j \in Events(tr, kind) : j < i})
Raised(tr) == {i \in Events(tr, "task") : tr[i][2] = "raised"}

\* C14: for a one-shot task onTaskFail is called exactly once, and only on the
\* final failure: directly after an attempt that raised when all maxRetries
\* retries were used up, with that attempt's error; never after an attempt
\* that still has a retry left; and scheduleTask does not throw the error of
\* the work.
C14_OnTaskFail ==
  \A id \in DOMAIN submitted :
    OneShot(id) =>
      LET tr == trace[id]
          N == submitted[id].maxRetries
          fails == Events(tr, "onTaskFail")
      IN /\ Cardinality(fails) <= 1
         /\ Cardinality(Raised(tr)) = N + 1 => Cardinality(fails) = 1
         /\ \A i \in fails :
              /\ i > 1
              /\ tr[i - 1] = <<"task", "raised">>
              /\ Before(tr, "onTaskRetry", i) = N
              /\ tr[i] = <<"onTaskFail", submitted[id].name, Before(tr, "task", i)>>
         /\ ~submitted[id].threw

C14_Witness ==
  \E id \in DOMAIN submitted :
    /\ OneShot(id)
    /\ submitted[id].maxRetries > 0
    /\ Cardinality(Raised(trace[id])) = submitted[id].maxRetries + 1
    /\ Events(trace[id], "onTaskFail") # {}

\* C15: onTaskStart is called exactly once per attempt, of one-shot and of
\* recurring tasks, with the task's identifier and the submitted name, so
\* there are as many onTaskStart calls as invocations of the work; and
\* onTaskComplete is called exactly once per attempt that returns normally,
\* directly after it.
C15_StartAndComplete ==
  \A id \in DOMAIN submitted :
    LET tr == trace[id]
        name == submitted[id].name
    IN /\ Cardinality(Events(tr, "onTaskStart")) = Runs(trace, id)
       /\ \A i \in Events(tr, "task") : i > 1 /\ tr[i - 1] = <<"onTaskStart", name>>
       /\ \A i \in Events(tr, "onTaskStart") :
            /\ tr[i] = <<"onTaskStart", name>>
            /\ i < Len(tr) /\ tr[i + 1][1] = "task"
       /\ Cardinality(Events(tr, "onTaskComplete")) =
            Cardinality(Events(tr, "task") \ Raised(tr))
       /\ \A i \in Events(tr, "task") \ Raised(tr) :
            i < Len(tr) /\ tr[i + 1] = <<"onTaskComplete", name>>

C15_Witness ==
  /\ \E id \in DOMAIN submitted :
       /\ OneShot(id)
       /\ Cardinality(Raised(trace[id])) = 1
       /\ Cardinality(Events(trace[id], "onTaskComplete")) = 1
  /\ \E id \in DOMAIN submitted :
       /\ Recurring(id)
       /\ Cardinality(Raised(trace[id])) = 1
       /\ Cardinality(Events(trace[id], "onTaskComplete")) = 1

Closing == {"onTaskComplete", "onTaskFail", "onTaskRetry"}

\* C16: in the calls recorded for one task, every onTaskComplete and
\* onTaskFail comes after the onTaskStart and the work of the same attempt,
\* every onTaskRetry comes after the failed attempt has finished and before
\* the onTaskStart of the next attempt, and attempts do not overlap: an
\* attempt starts only after the previous one and its closing hook are done.
C16_HookOrder ==
  \A id \in DOMAIN submitted :
    LET tr == trace[id] IN
    \A i \in 1..Len(tr) :
      /\ tr[i][1] \in Closing =>
           /\ i >= 3
           /\ tr[i - 2][1] = "onTaskStart"
           /\ tr[i - 1] = <<"task", IF tr[i][1] = "onTaskComplete"
                                    THEN "returned" ELSE "raised">>
           /\ i < Len(tr) => tr[i + 1][1] = "onTaskStart"
      /\ tr[i][1] = "onTaskStart" => (i = 1 \/ tr[i - 1][1] \in Closing)
      /\ tr[i][1] = "task" => (i > 1 /\ tr[i - 1][1] = "onTaskStart")

C16_Witness ==
  \E id \in DOMAIN submitted :
    LET tr == trace[id] IN
    /\ OneShot(id)
    /\ Len(tr) = 6
    /\ tr[3][1] = "onTaskRetry"
    /\ tr[4][1] = "onTaskStart"
    /\ tr[6][1] = "onTaskFail"

\* C17: when a hook raises, the status change that called it is carried out
\* as if the hook had returned, retryCount is not changed by the hook's
\* error, and scheduleTask does not throw: for a one-shot task that was never
\* canceled or overridden, the work runs in every attempt that was started,
\* and retryCount and the status are what the outcomes of the work alone give.
C17_HookIsolation ==
  \A id \in DOMAIN submitted :
    (OneShot(id) /\ id \notin overridden /\ id \notin DOMAIN cancelAt) =>
      LET tr == trace[id]
          N == submitted[id].maxRetries
          failed == Cardinality(Raised(tr))
      IN /\ ~submitted[id].threw
         /\ Cardinality(Events(tr, "onTaskStart")) = Runs(trace, id)
         /\ scheduledTasks[id].retryCount = Min({failed, N})
         /\ Runs(trace, id) > 0 =>
              Status(id) = (IF failed < Runs(trace, id) THEN "completed"
                            ELSE IF failed > N THEN "failed" ELSE "retrying")

Max(S) == CHOOSE x \in S : \A y \in S : y <= x

\* the number of attempts that raised in a row directly before position i
Streak(tr, i) ==
  LET returned == {j \in Events(tr, "task") \ Raised(tr) : j < i}
      last == Max({0} \cup returned)
  IN Cardinality({j \in Raised(tr) : last < j /\ j < i})

\* C18: the retry budget of a recurring task is per cycle: a successful run
\* resets the counter to 0, at most maxRetries failures in a row do not stop
\* the schedule, and the retries after a success are numbered from 1 again:
\* every onTaskRetry carries the number of failures in a row before it.
C18_BudgetPerCycle ==
  \A id \in DOMAIN submitted :
    (Recurring(id) /\ id \notin DOMAIN cancelAt) =>
      LET tr == trace[id]
          M == submitted[id].maxRetries
      IN /\ \A i \in Events(tr, "onTaskRetry") :
              /\ Streak(tr, i) \in 1..M
              /\ tr[i] = <<"onTaskRetry", submitted[id].name, Streak(tr, i), M>>
         /\ Events(tr, "onTaskFail") = {} =>
              /\ closures[id].retryCount = Streak(tr, Len(tr) + 1)
              /\ Streak(tr, Len(tr) + 1) <= M
              /\ PendingFor(id) # {}

C18_Witness ==
  \E id \in DOMAIN submitted :
    LET tr == trace[id] IN
    /\ Recurring(id) /\ id \notin DOMAIN cancelAt
    /\ Len(tr) = 9
    /\ tr[3] = <<"onTaskRetry", submitted[id].name, 1, submitted[id].maxRetries>>
    /\ tr[6][1] = "onTaskComplete"
    /\ tr[9] = <<"onTaskRetry", submitted[id].name, 1, submitted[id].maxRetries>>
    /\ PendingFor(id) # {}

\* C19: a recurring task with maxRetries M stops for good when a cycle has
\* used up its retries: after M + 1 failures in a row onTaskFail is called
\* once, with the error of the last run, no timer of the task is armed, and
\* the work is not invoked again.
C19_RecurringStops ==
  \A id \in DOMAIN submitted :
    Recurring(id) =>
      LET tr == trace[id]
          M == submitted[id].maxRetries
          fails == Events(tr, "onTaskFail")
      IN /\ Cardinality(fails) <= 1
         /\ Streak(tr, Len(tr) + 1) = M + 1 => fails # {}
         /\ \A i \in fails :
              /\ Streak(tr, i) = M + 1
              /\ tr[i] = <<"onTaskFail", submitted[id].name, Before(tr, "task", i)>>
              /\ i = Len(tr)
              /\ PendingFor(id) = {}

C19_Witness ==
  \E id \in DOMAIN submitted :
    /\ Recurring(id)
    /\ submitted[id].maxRetries > 0
    /\ Events(trace[id], "onTaskFail") # {}
    /\ now >= submitted[id].at + (submitted[id].maxRetries + 3) * submitted[id].delay

\* C20: a recurring task whose work never raises and that is not canceled is
\* registered with status scheduled, does not run at submission, and is run
\* once per elapsed interval: when the callbacks due by now have run, the
\* work has been invoked (now - submission time) \div interval times; exactly
\* one timer of the task is pending, due one interval after the last run.
C20_OncePerInterval ==
  \A id \in DOMAIN submitted :
    (Recurring(id) /\ Raised(trace[id]) = {} /\ id \notin DOMAIN cancelAt) =>
      LET k == Runs(trace, id)
          at == submitted[id].at
          interval == submitted[id].delay
      IN /\ id \notin overridden => Status(id) = "scheduled"
         /\ Cardinality(PendingFor(id)) = 1
         /\ \A t \in PendingFor(id) :
              /\ t.due = at + (k + 1) * interval
              /\ t.due > now => k = (now - at) \div interval
              /\ t.due <= now => k + 1 = (now - at) \div interval

C20_Witness ==
  \E id \in DOMAIN submitted :
    /\ Recurring(id) /\ Raised(trace[id]) = {} /\ id \notin DOMAIN cancelAt
    /\ Runs(trace, id) = 3
    /\ now = submitted[id].at + 3 * submitted[id].delay

\* C21: a one-shot task submitted with delay > 0 and no unmet dependency (and
\* not canceled) keeps status scheduled and an un-invoked work until the delay
\* has elapsed; the callback of the delay timer invokes the work once, and if
\* that run returns the status is completed and the record keeps the handle
\* of the timer.  The status is read up to the caller's updateTaskStatus.
C21_DelayedSubmission ==
  \A id \in DOMAIN submitted :
    (/\ OneShot(id) /\ submitted[id].delay > 0
     /\ gate[id] \in {"none", "met"} /\ id \notin DOMAIN cancelAt) =>
      LET due == submitted[id].at + submitted[id].delay
          first == {t \in PendingFor(id) : t.kind = "execute" /\ t.due = due}
      IN /\ scheduledTasks[id].scheduledId # NoHandle
         /\ Runs(trace, id) = 0 =>
              /\ now <= due
              /\ Cardinality(first) = 1
              /\ \A t \in first : t.h = scheduledTasks[id].scheduledId
              /\ id \notin overridden => Status(id) = "scheduled"
         /\ Runs(trace, id) > 0 =>
              /\ now >= due
              /\ first = {}
              /\ trace[id][2] = <<"task", "returned">> =>
                   /\ Runs(trace, id) = 1
                   /\ PendingFor(id) = {}
                   /\ id \notin overridden => Status(id) = "completed"

C21_Witness ==
  \E id \in DOMAIN submitted :
    /\ OneShot(id) /\ submitted[id].delay > 0
    /\ gate[id] = "none" /\ id \notin DOMAIN cancelAt
    /\ trace[id] = <<<<"onTaskStart", submitted[id].name>>, <<"task", "returned">>,
                     <<"onTaskComplete", submitted[id].name>>>>
    /\ Status(id) = "completed"
    /\ scheduledTasks[id].scheduledId # NoHandle
    /\ now = submitted[id].at + submitted[id].delay

\* C22: once onTaskFail has been called for a task, one-shot or recurring,
\* the status of its record is failed and stays failed (until the caller
\* overrides it with updateTaskStatus).
C22_FailedStatus ==
  \A id \in DOMAIN submitted :
    (Events(trace[id], "onTaskFail") # {} /\ id \notin overridden) =>
      Status(id) = "failed"

\* C23: the next attempt of a one-shot task after a failed attempt that has a
\* retry left starts exactly the configured delay after that failure, not a
\* multiple of it; with delay 0 that is the next timer turn, at the same
\* clock reading.
C23_RetryAfterDelay ==
  \A id \in DOMAIN submitted :
    OneShot(id) =>
      \A i \in 1..(Len(runAt[id]) - 1) :
        runAt[id][i + 1] = runAt[id][i] + submitted[id].delay

\* C24: whatever the interleaving of submissions, timer callbacks, dependency
\* polls, updateTaskStatus and cancelScheduledTask calls, the work of a
\* one-shot task with maxRetries N is invoked at most N + 1 times, every
\* attempt but the first follows an attempt that raised, and after an attempt
\* that returned the work is not invoked again; a waiting task is released by
\* its dependency poll at most once, after which the poll is gone.
C24_AtMostOnce ==
  \A id \in DOMAIN submitted :
    OneShot(id) =>
      LET tr == trace[id]
          runs == Events(tr, "task")
      IN /\ Cardinality(runs) <= submitted[id].maxRetries + 1
         /\ \A i \in runs \ Raised(tr) : \A j \in runs : j <= i
         /\ Cardinality(runs \ Raised(tr)) <= 1
         /\ gate[id] = "released" => \A t \in PendingFor(id) : t.kind # "poll"
         /\ \A t \in PendingFor(id) :
              t.kind = "poll" => Cardinality(runs) = 0

C24_Witness ==
  \E id \in DOMAIN submitted :
    /\ OneShot(id)
    /\ gate[id] = "released"
    /\ submitted[id].maxRetries > 0
    /\ Runs(trace, id) = submitted[id].maxRetries + 1
    /\ now >= submitted[id].at + 2 * PollInterval

\* C25: the dependency check looks only at the registry as it is when the
\* check is made: a list is satisfied iff every id in it has a record with
\* status completed (the empty list is; an id without a record never is, and
\* nothing is remembered from earlier checks).  A one-shot task whose
\* dependencies are satisfied at submission is not put in waiting and with
\* delay 0 runs inside scheduleTask; otherwise it waits with a poll pending.
\* A poll tick releases the task iff the list is satisfied at the tick, and
\* otherwise leaves the task as it is and stays armed.
C25_DependencyCheck ==
  [][/\ \A id \in DOMAIN submitted' \ DOMAIN submitted :
          submitted'[id].kind = "oneshot" =>
            LET polls == {t \in timers' : t.id = id /\ t.kind = "poll"} IN
            IF DepsCompleted(scheduledTasks, submitted'[id].dependencies)
            THEN /\ scheduledTasks'[id].status # "waiting"
                 /\ polls = {}
                 /\ Runs(trace', id) = (IF submitted'[id].delay = 0 THEN 1 ELSE 0)
            ELSE /\ scheduledTasks'[id].status = "waiting"
                 /\ Cardinality(polls) = 1
                 /\ Runs(trace', id) = 0
     /\ \A t \in timers :
          (t.kind = "poll" /\ t \notin timers') =>
            IF DepsCompleted(scheduledTasks, scheduledTasks[t.id].dependencies)
            THEN /\ \A u \in timers' : u.h # t.h
                 /\ Runs(trace', t.id) =
                      (IF scheduledTasks[t.id].delay = 0 THEN 1 ELSE 0)
            ELSE /\ [t EXCEPT !.due = t.due + PollInterval] \in timers'
                 /\ trace'[t.id] = trace[t.id]
                 /\ scheduledTasks'[t.id] = scheduledTasks[t.id]]_vars

C25_Witness ==
  \E id \in DOMAIN submitted :
    LET dep == submitted[id].dependencies[1] IN
    /\ Len(submitted[id].dependencies) = 1
    /\ dep \in KnownIds
    /\ trace[dep] # <<>> /\ trace[dep][Len(trace[dep])][1] = "onTaskComplete"
    /\ dep \in overridden /\ Status(dep) = "failed"
    /\ Status(id) = "waiting" /\ Runs(trace, id) = 0
    /\ \E t \in PendingFor(id) : t.kind = "poll" /\ t.due = submitted[id].at + 2 * PollInterval

\* C26: the metadata object does not reach the fields the scheduler owns:
\* whatever keys it has, the id of the stored record is the registry key, its
\* delay and maxRetries are those of the submission, its retryCount is the
\* number of retries granted so far, and before the first run the status is
\* the one the submission gives: waiting with an unmet dependency, scheduled
\* otherwise (a task the caller never canceled or overrode).
C26_MetadataOpaque ==
  \A id \in DOMAIN submitted :
    LET r == scheduledTasks[id] IN
    /\ r.id = id
    /\ r.delay = submitted[id].delay
    /\ r.maxRetries = submitted[id].maxRetries
    /\ r.retryCount = (IF OneShot(id)
                       THEN Cardinality(Events(trace[id], "onTaskRetry")) ELSE 0)
    /\ (Runs(trace, id) = 0 /\ id \notin overridden /\ id \notin DOMAIN cancelAt) =>
         /\ gate[id] \in {"none", "met"} => r.status = "scheduled"
         /\ gate[id] = "unmet" => r.status = "waiting"

====
